---- MODULE Spec2Model ----
(***************************************************************************)
(* A model of PathMe's identifier resolution (wikipathways/utils.py and    *)
(* reactome/utils.py), graph construction (convert_to_nx) and type         *)
(* statistics (pathme/utils.py).                                           *)
(*                                                                         *)
(* A Python string is modelled as the sequence of its lexical pieces, so   *)
(* that splitting, joining and substring tests are computed and not        *)
(* assumed: "http://identifiers.org/uniprot/P1" is                         *)
(* <<"http:", "/", "/", "identifiers.org", "/", "uniprot", "/", "P1">>.    *)
(***************************************************************************)
EXTENDS Integers, Sequences, FiniteSets, TLC

VARIABLES
    source,      \* which resolver variant the record is for
    node,        \* the raw entity record (a dict: key -> value)
    lookup,      \* the behaviour of the external lookup services
    result,      \* outcome of the resolver call, NoResult before the call
    queried,     \* the lookup queries made by the most recent resolver call, in order
    result_again,\* outcome of a second call on the same record and service
    hash_seed,   \* the order in which the running interpreter iterates the name strings
    nodes,       \* convert_to_nx: node id -> attributes
    interactions,\* convert_to_nx: list of (subject, object, attributes)
    pathway_info,\* convert_to_nx: pathway info dictionary
    graph,       \* the MultiDiGraph convert_to_nx returns, NoResult before the call
    types_list,  \* get_entry_statitics: the type occurrences
    primary_type,\* get_entry_statitics: the primary_type argument, PyNoneValue if not given
    counted,     \* what get_entry_statitics returns, NoResult before the call
    pathways,    \* the batch: pathway name -> its parsed types and BEL graph
    global_statistics,       \* the running accumulator of a batch run
    all_pathways_statistics, \* the side table: pathway name -> its statistics
    processed,   \* names of the pathways aggregated into global_statistics, in order
    global_statistics_b,     \* a second accumulator, fed in an order of its own
    processed_b, \* names of the pathways aggregated into global_statistics_b
    calls,       \* the get_pathway_statitics calls of a run on the side table, in order
    given_uri,   \* parse_id_uri: the URI
    parsed_uri,  \* what parse_id_uri returns or raises, NoResult before the call
    df_input,    \* statistics_to_df: the (pathway name, statistics) items, in dict order
    df           \* what statistics_to_df returns or raises, NoResult before the call

resolverVars == <<source, node, lookup, result, queried, result_again, hash_seed>>
graphVars == <<nodes, interactions, pathway_info, graph>>
countVars == <<types_list, primary_type, counted>>
aggregateVars == <<pathways, global_statistics, all_pathways_statistics, processed,
                   global_statistics_b, processed_b, calls>>
uriVars == <<given_uri, parsed_uri>>
tableVars == <<df_input, df>>
vars == <<resolverVars, graphVars, countVars, aggregateVars, tableVars, uriVars>>

(***************************************************************************)
(* Bounds                                                                  *)
(***************************************************************************)
\* longest candidate list a UniProt lookup returns
MaxCand == 2
\* longest interaction list given to convert_to_nx
MaxInteractions == 2
\* longest list of type occurrences given to get_entry_statitics
MaxOccurrences == 3
\* most pathways aggregated into one accumulator
MaxAggregations == 3
\* most pathways in the table given to statistics_to_df
MaxPathways == 3
\* most segments of a URI given to parse_id_uri
MaxSegments == 7

(***************************************************************************)
(* Python values                                                           *)
(***************************************************************************)
Str(s) == <<s>>
PyNone == <<"<None>">>
SLASH == "/"
HASH == "#"

\* pathme.constants (imported by both resolver variants)
HGNC == Str("HGNC")
ENSEMBL == Str("ENSEMBL")
ENTREZ == Str("ENTREZ")
EXPASY == Str("EXPASY")
UNIPROT == Str("UNIPROT")
WIKIPATHWAYS == Str("wikipathways")
ZFIN == Str("ZFIN")
UNKNOWN == Str("unknown")
HGNC_MULTIPLE_ENTRY == Str("hgnc_multiple_entry")

\* outcomes of a call
NoResult == [kind |-> "none"]
Return(v) == [kind |-> "ok", value |-> v]
Raise(e) == [kind |-> "error", error |-> e]

\* s in t for Python strings: t has the piece s
Contains(t, s) == \E i \in 1..Len(t) : t[i] = s

\* the lookup answers: no match, one gene, or a list of genes
NoMatch == [kind |-> "none"]
Gene(symbol, identifier) ==
    [kind |-> "gene", symbol |-> Str(symbol), identifier |-> Str(identifier)]
GeneA == Gene("TP53", "11998")
GeneB == Gene("MDM2", "6973")
GeneC == Gene("BRCA1", "1100")
GeneD == Gene("EGFR", "3236")
GeneE == Gene("KRAS", "6407")
GeneF == Gene("PTEN", "9588")
Genes == {GeneA, GeneB}
GeneList(items) == [kind |-> "list", items |-> items]
SeqsUpTo(S, n) == UNION {[1..k -> S] : k \in 0..n}

\* Python truthiness of a lookup answer: None and [] are falsy
Truthy(q) == \/ q.kind = "gene"
             \/ q.kind = "list" /\ Len(q.items) > 0

(***************************************************************************)
(* pathme/wikipathways/utils.py                                            *)
(***************************************************************************)
get_hgnc_from_alias_symbol(lk, s) == lk.by_alias[s]
get_gene_by_hgnc_symbol(lk, s) == lk.by_hgnc_symbol[s]
get_gene_by_entrez_id(lk, s) == lk.by_entrez[s]
get_gene_by_uniprot_id(lk, s) == lk.by_uniprot[s]
\* the service's Ensembl query; neither resolver calls it
get_gene_by_ensembl_id(lk, s) == lk.by_ensembl[s]

_get_update_alias_symbol(lk, original_identifier, original_namespace) ==
    LET query_result == get_hgnc_from_alias_symbol(lk, original_identifier)
    IN  IF ~Truthy(query_result)
        THEN Return(<<original_namespace, original_identifier, original_identifier>>)
        ELSE Return(<<HGNC, query_result.symbol, query_result.identifier>>)

\* _validate_query with the slip of keeping the queried identifier
validate_query_keeps_identifier(lk, query_result, original_identifier, original_namespace) ==
    IF ~Truthy(query_result)
    THEN Return(<<original_namespace, original_identifier, original_identifier>>)
    ELSE LET entry == IF query_result.kind = "list" THEN query_result.items[1]
                      ELSE query_result
         IN  Return(<<HGNC, entry.symbol, original_identifier>>)

_validate_query(lk, query_result, original_identifier, original_namespace) ==
    IF ~Truthy(query_result) /\ original_namespace = HGNC
    THEN _get_update_alias_symbol(lk, original_identifier, HGNC)
    ELSE IF ~Truthy(query_result)
    THEN Return(<<original_namespace, original_identifier, original_identifier>>)
    ELSE LET entry == IF query_result.kind = "list" THEN query_result.items[1]
                      ELSE query_result
         IN  Return(<<HGNC, entry.symbol, entry.identifier>>)

Has(d, k) == k \in DOMAIN d

\* one call of a method of the lookup service
Query(method, argument) == <<method, argument>>

\* the queries _get_update_alias_symbol makes
_get_update_alias_symbol_queries(original_identifier) ==
    <<Query("get_hgnc_from_alias_symbol", original_identifier)>>

\* the queries _validate_query makes: the alias query on a missed HGNC symbol
_validate_query_queries(query_result, original_identifier, original_namespace) ==
    IF ~Truthy(query_result) /\ original_namespace = HGNC
    THEN _get_update_alias_symbol_queries(original_identifier)
    ELSE <<>>

get_valid_gene_identifier(node_ids_dict, lk) ==
    IF Has(node_ids_dict, "bdb_hgncsymbol")
    THEN LET hgnc_symbol == node_ids_dict["bdb_hgncsymbol"]
         IN  _validate_query(lk, get_gene_by_hgnc_symbol(lk, hgnc_symbol), hgnc_symbol, HGNC)
    ELSE IF Has(node_ids_dict, "bdb_ncbigene")
    THEN LET entrez_id == node_ids_dict["bdb_ncbigene"]
         IN  _validate_query(lk, get_gene_by_entrez_id(lk, entrez_id), entrez_id, ENTREZ)
    ELSE IF Has(node_ids_dict, "bdb_uniprot")
    THEN LET uniprot_id == node_ids_dict["bdb_uniprot"]
         IN  _validate_query(lk, get_gene_by_uniprot_id(lk, uniprot_id), uniprot_id, UNIPROT)
    \* the source's fourth branch tests 'bdb_ncbigene' again, so it is never taken
    ELSE IF Has(node_ids_dict, "bdb_ncbigene")
    THEN LET ensembl_id == node_ids_dict["bdb_ncbigene"]
         IN  _validate_query(lk, get_gene_by_uniprot_id(lk, ensembl_id), ensembl_id, ENSEMBL)
    ELSE IF ~Has(node_ids_dict, "uri_id")
    THEN Raise("KeyError")
    ELSE IF Contains(node_ids_dict["uri_id"], "ec-code")
    THEN IF ~Has(node_ids_dict, "name") THEN Raise("KeyError")
         ELSE LET ec_number == node_ids_dict["name"]
              IN  Return(<<EXPASY, ec_number, ec_number>>)
    ELSE IF Has(node_ids_dict, "bdb_wikidata")
    THEN IF ~Has(node_ids_dict, "name") THEN Raise("KeyError")
         ELSE LET name == node_ids_dict["name"]
                  hgnc_entry == get_gene_by_hgnc_symbol(lk, name)
              IN  IF Truthy(hgnc_entry)
                  THEN Return(<<HGNC, hgnc_entry.symbol, hgnc_entry.identifier>>)
                  ELSE Return(<<WIKIPATHWAYS, name, name>>)
    ELSE Raise("Exception: Unknown identifier for node")

\* the queries get_valid_gene_identifier makes on the service, in order
get_valid_gene_identifier_queries(node_ids_dict, lk) ==
    IF Has(node_ids_dict, "bdb_hgncsymbol")
    THEN LET hgnc_symbol == node_ids_dict["bdb_hgncsymbol"]
         IN  <<Query("get_gene_by_hgnc_symbol", hgnc_symbol)>>
             \o _validate_query_queries(get_gene_by_hgnc_symbol(lk, hgnc_symbol), hgnc_symbol, HGNC)
    ELSE IF Has(node_ids_dict, "bdb_ncbigene")
    THEN LET entrez_id == node_ids_dict["bdb_ncbigene"]
         IN  <<Query("get_gene_by_entrez_id", entrez_id)>>
             \o _validate_query_queries(get_gene_by_entrez_id(lk, entrez_id), entrez_id, ENTREZ)
    ELSE IF Has(node_ids_dict, "bdb_uniprot")
    THEN LET uniprot_id == node_ids_dict["bdb_uniprot"]
         IN  <<Query("get_gene_by_uniprot_id", uniprot_id)>>
             \o _validate_query_queries(get_gene_by_uniprot_id(lk, uniprot_id), uniprot_id, UNIPROT)
    \* the branch that is never taken
    ELSE IF Has(node_ids_dict, "bdb_ncbigene")
    THEN LET ensembl_id == node_ids_dict["bdb_ncbigene"]
         IN  <<Query("get_gene_by_uniprot_id", ensembl_id)>>
             \o _validate_query_queries(get_gene_by_uniprot_id(lk, ensembl_id), ensembl_id, ENSEMBL)
    ELSE IF ~Has(node_ids_dict, "uri_id") THEN <<>>
    ELSE IF Contains(node_ids_dict["uri_id"], "ec-code") THEN <<>>
    ELSE IF Has(node_ids_dict, "bdb_wikidata") /\ Has(node_ids_dict, "name")
    THEN <<Query("get_gene_by_hgnc_symbol", node_ids_dict["name"])>>
    ELSE <<>>

(***************************************************************************)
(* pathme/utils.py: URI decomposition                                      *)
(***************************************************************************)
RECURSIVE SplitAcc(_, _, _, _)
SplitAcc(s, sep, cur, acc) ==
    IF s = <<>> THEN Append(acc, cur)
    ELSE IF Head(s) = sep THEN SplitAcc(Tail(s), sep, <<>>, Append(acc, cur))
    ELSE SplitAcc(Tail(s), sep, Append(cur, Head(s)), acc)

\* str.split(sep): always at least one segment
Split(s, sep) == SplitAcc(s, sep, <<>>, <<>>)

RECURSIVE Join(_, _)
\* sep.join(segs)
Join(segs, sep) ==
    IF segs = <<>> THEN <<>>
    ELSE IF Len(segs) = 1 THEN segs[1]
    ELSE segs[1] \o <<sep>> \o Join(Tail(segs), sep)

\* Python's index normalisation of a slice bound
SliceBound(i, n) ==
    LET j == IF i < 0 THEN i + n ELSE i
    IN  IF j < 0 THEN 0 ELSE IF j > n THEN n ELSE j

\* a slice that runs one item past its upper bound
PySliceOneMore(seq, lo, hi) ==
    LET a == SliceBound(lo, Len(seq))
        b == SliceBound(hi, Len(seq))
    IN  IF a >= b THEN <<>> ELSE SubSeq(seq, a + 1, IF b < Len(seq) THEN b + 1 ELSE b)

\* seq[lo:hi]
PySlice(seq, lo, hi) ==
    LET a == SliceBound(lo, Len(seq))
        b == SliceBound(hi, Len(seq))
    IN  IF a >= b THEN <<>> ELSE SubSeq(seq, a + 1, b)

parse_id_uri(uri) ==
    LET splitted_uri == Split(uri, SLASH)
        n == Len(splitted_uri)
        prefix == Join(PySlice(splitted_uri, 0, 3), SLASH)
        prefix_namespaces == Join(PySlice(splitted_uri, 3, -2), SLASH)
    IN  IF n < 2 THEN Raise("IndexError")
        ELSE Return(<<prefix, prefix_namespaces, splitted_uri[n - 1], splitted_uri[n]>>)

\* the URIs parse_id_uri is run on: up to MaxSegments segments, each empty, of
\* one piece or of two, joined by '/'
UriSegments == {<<>>, <<"a">>, <<"b", "c">>}
Uris == {Join(segs, SLASH) : segs \in SeqsUpTo(UriSegments, MaxSegments) \ {<<>>}}

InitUri == given_uri \in Uris /\ parsed_uri = NoResult
IdleUri == given_uri = <<>> /\ parsed_uri = NoResult

RECURSIVE Replace(_, _)
\* s.replace(old, ''), old a non-empty string
Replace(s, old) ==
    IF Len(s) < Len(old) THEN s
    ELSE IF SubSeq(s, 1, Len(old)) = old THEN Replace(SubSeq(s, Len(old) + 1, Len(s)), old)
    ELSE <<Head(s)>> \o Replace(Tail(s), old)

(***************************************************************************)
(* pathme/reactome/utils.py                                                *)
(***************************************************************************)
\* ebel.client.command(...)[0].oRecordData['symbol']
zfin_query(lk, identifier) == lk.zfin[identifier]
get_chemical_by_chebi_name(lk, name) == lk.chebi_by_name[name]
get_chemical_by_chebi_id(lk, identifier) == lk.chebi_by_id[identifier]

\* the part of get_valid_node_parameters that settles namespace and identifier:
\* a Return of <<namespace, identifier>> or a Raise
node_namespace(n, lk) ==
    LET parsed == IF Has(n, "uri_id") THEN parse_id_uri(n["uri_id"])
                  ELSE Return(<<<<>>, <<>>, PyNone, PyNone>>)
    IN
    IF parsed.kind = "error" THEN parsed
    ELSE
    LET namespace == parsed.value[3]
        identifier == parsed.value[4]
    IN
    IF namespace = Str("uniprot")
    THEN LET zfin_results == zfin_query(lk, identifier)
         IN  IF zfin_results.kind = "norows" THEN Raise("IndexError")
             ELSE LET zfin_symbol == zfin_results.symbol
                  IN  IF Len(zfin_symbol) = 0 THEN Return(<<UNIPROT, identifier>>)
                      ELSE IF 1 < Len(zfin_symbol)
                      THEN Return(<<HGNC_MULTIPLE_ENTRY, zfin_symbol>>)
                      ELSE Return(<<ZFIN, identifier>>)
    ELSE IF namespace = Str("ensembl")
    \* the query is formatted with ensembl_id, a name the function never binds
    THEN Raise("NameError")
    ELSE IF namespace = Str("obo") /\ Contains(identifier, "CHEBI")
    THEN Return(<<Str("chebi"), identifier>>)
    ELSE IF Has(n, "uri_reactome_id")
    THEN IF Has(n, "reactome_id") THEN Return(<<Str("reactome"), n["reactome_id"]>>)
         ELSE LET p2 == parse_id_uri(n["uri_reactome_id"])
              IN  IF p2.kind = "error" THEN p2
                  ELSE IF Contains(p2.value[4], HASH)
                  THEN Return(<<Str("reactome"), Split(p2.value[4], HASH)[2]>>)
                  ELSE Return(<<Str("reactome"), p2.value[4]>>)
    \* the debug call reads node['uri_id']
    ELSE IF ~Has(n, "uri_id") THEN Raise("KeyError")
    ELSE Return(<<namespace, identifier>>)

\* list(S) for a set of strings: its members in the order the interpreter
\* iterates them. The order follows from the string hashes, which are salted
\* anew for every run of the interpreter (PYTHONHASHSEED); seed lists the
\* strings in the order this run iterates them
ListOf(S, seed) == SelectSeq(seed, LAMBDA x : x \in S)

\* list(name)[0]
first_of_list(name, seed) == ListOf(name.members, seed)[1]

\* the name when the record has no display_name
node_name(n, seed) ==
    IF Has(n, "name")
    THEN IF n["name"].kind = "set" THEN first_of_list(n["name"], seed) ELSE n["name"].value
    ELSE UNKNOWN

\* get_valid_node_parameters(node, hgnc_manager, chebi_manager) in an interpreter
\* run that iterates sets as seed tells
get_valid_node_parameters(n, lk, seed) ==
    LET ns == node_namespace(n, lk)
    IN
    IF ns.kind = "error" THEN ns
    ELSE
    LET namespace == ns.value[1]
        identifier == ns.value[2]
    IN
    IF Has(n, "display_name")
    THEN IF (namespace = Str("chebi") \/ namespace = Str("CHEBI"))
            /\ ~get_chemical_by_chebi_name(lk, n["display_name"])
         THEN LET stripped == Replace(identifier, <<"CHEBI", ":">>)
                  chem == get_chemical_by_chebi_id(lk, stripped)
              IN  IF chem.kind = "chemical"
                  THEN Return(<<stripped, chem.safe_name, namespace>>)
                  ELSE Return(<<stripped, stripped, namespace>>)
         ELSE Return(<<identifier, n["display_name"], namespace>>)
    ELSE Return(<<identifier, node_name(n, seed), namespace>>)

\* the queries get_valid_node_parameters makes on the services, in order
get_valid_node_parameters_queries(n, lk) ==
    LET parsed == IF Has(n, "uri_id") THEN parse_id_uri(n["uri_id"])
                  ELSE Return(<<<<>>, <<>>, PyNone, PyNone>>)
        ns == node_namespace(n, lk)
    IN
    IF parsed.kind = "error" THEN <<>>
    ELSE
    (IF parsed.value[3] = Str("uniprot")
     THEN <<Query("SELECT symbol FROM zfin WHERE uniprot.id", parsed.value[4])>>
     ELSE <<>>)
    \o
    (IF /\ ns.kind = "ok" /\ Has(n, "display_name")
        /\ (ns.value[1] = Str("chebi") \/ ns.value[1] = Str("CHEBI"))
     THEN <<Query("get_chemical_by_chebi_name", n["display_name"])>>
          \o IF ~get_chemical_by_chebi_name(lk, n["display_name"])
             THEN <<Query("get_chemical_by_chebi_id",
                          Replace(ns.value[2], <<"CHEBI", ":">>))>>
             ELSE <<>>
     ELSE <<>>)

(***************************************************************************)
(* The records and lookup services the resolvers are run on                *)
(***************************************************************************)
WPHintKeys == {"bdb_hgncsymbol", "bdb_ncbigene", "bdb_uniprot", "bdb_ensembl", "bdb_wikidata"}
EcUri == <<"http:", "/", "/", "identifiers.org", "/", "ec-code", "/", "1.1.1.1">>
WikidataUri == <<"http:", "/", "/", "www.wikidata.org", "/", "entity", "/", "Q14818098">>
WPUris == {EcUri, WikidataUri}

WPValue(k) ==
    CASE k = "bdb_hgncsymbol" -> Str("P53")
      [] k = "bdb_ncbigene" -> Str("7157")
      [] k = "bdb_uniprot" -> Str("P04637")
      [] k = "bdb_ensembl" -> Str("ENSG00000141510")
      [] k = "bdb_wikidata" -> Str("Q14818098")
      [] k = "name" -> Str("p53 protein")

\* a WikiPathways record: any set of hints, with or without uri_id and name
WPRecord(hints, uris, names) ==
    [k \in hints \cup {"uri_id" : u \in uris} \cup {"name" : b \in names} |->
        IF k = "uri_id" THEN CHOOSE u \in uris : TRUE ELSE WPValue(k)]

WPRecords ==
    {WPRecord(h, u, nm) : h \in SUBSET WPHintKeys,
                          u \in {{}} \cup {{x} : x \in WPUris},
                          nm \in {{}, {TRUE}}}

\* a gene service: each query answers no match or a gene; the UniProt query may
\* also answer a list of genes
WPLookups ==
    {[by_hgnc_symbol |-> [s \in {WPValue("bdb_hgncsymbol"), WPValue("name")} |->
                              IF s = WPValue("name") THEN byname ELSE bysym],
      by_alias |-> [s \in {WPValue("bdb_hgncsymbol")} |-> byalias],
      by_entrez |-> [s \in {WPValue("bdb_ncbigene")} |-> byentrez],
      by_uniprot |-> [s \in {WPValue("bdb_uniprot")} |-> byuniprot],
      by_ensembl |-> [s \in {WPValue("bdb_ensembl")} |-> byensembl],
      zfin |-> <<>>, chebi_by_name |-> <<>>, chebi_by_id |-> <<>>] :
        bysym \in {NoMatch, GeneC},
        byname \in {NoMatch, GeneD},
        byalias \in {NoMatch, GeneE},
        byentrez \in {NoMatch, GeneB},
        byensembl \in {NoMatch, GeneF},
        byuniprot \in {NoMatch, GeneA} \cup {GeneList(l) : l \in SeqsUpTo(Genes, MaxCand)}}

UniprotUri == <<"http:", "/", "/", "identifiers.org", "/", "uniprot", "/", "P04637">>
EnsemblUri == <<"http:", "/", "/", "identifiers.org", "/", "ensembl", "/", "ENSG00000141510">>
OboUri == <<"http:", "/", "/", "purl.obolibrary.org", "/", "obo", "/", "CHEBI", "_15377">>
ChebiUri == <<"http:", "/", "/", "identifiers.org", "/", "chebi", "/", "CHEBI", ":", "15377">>
MirbaseUri == <<"http:", "/", "/", "identifiers.org", "/", "mirbase", "/", "MI0000060">>
BareUri == <<"P04637">>
ReactomeUris == {UniprotUri, EnsemblUri, OboUri, ChebiUri, MirbaseUri, BareUri}
FragmentUri == <<"http:", "/", "/", "www.reactome.org", "/", "biopax", "/", "63", "/", "48887", "#", "Protein1">>
PlainReactomeUri == <<"http:", "/", "/", "www.reactome.org", "/", "biopax", "/", "63", "/", "Complex2">>
ReactomeIdUris == {FragmentUri, PlainReactomeUri}
\* a name field is a string, or a set of strings
StrValue(s) == [kind |-> "str", value |-> s]
SetValue(members) == [kind |-> "set", members |-> members]
ReactomeNames == {StrValue(Str("water")), SetValue({Str("water"), Str("H2O")})}
\* the orders in which a run of the interpreter may iterate the name strings
HashSeeds == {<<Str("water"), Str("H2O")>>, <<Str("H2O"), Str("water")>>}

ReactomeRecord(uris, ruris, rids, dns, nms) ==
    [k \in {"uri_id" : u \in uris} \cup {"uri_reactome_id" : u \in ruris}
           \cup {"reactome_id" : b \in rids} \cup {"display_name" : b \in dns}
           \cup {"name" : v \in nms} |->
        CASE k = "uri_id" -> CHOOSE u \in uris : TRUE
          [] k = "uri_reactome_id" -> CHOOSE u \in ruris : TRUE
          [] k = "reactome_id" -> Str("R-HSA-69488")
          [] k = "display_name" -> Str("H2O [cytosol]")
          [] k = "name" -> CHOOSE v \in nms : TRUE]

OptionOf(S) == {{}} \cup {{x} : x \in S}

ReactomeRecords ==
    {ReactomeRecord(u, r, i, d, nm) : u \in OptionOf(ReactomeUris), r \in OptionOf(ReactomeIdUris),
                                      i \in OptionOf({TRUE}), d \in OptionOf({TRUE}),
                                      nm \in OptionOf(ReactomeNames)}

ZfinSymbols == {Str("tp53"), Str("mdm2")}
ChebiIds == {<<"CHEBI", "_15377">>, <<"15377">>}
Chemical(safe_name) == [kind |-> "chemical", safe_name |-> safe_name]

ReactomeLookups ==
    {[by_hgnc_symbol |-> <<>>, by_alias |-> <<>>, by_entrez |-> <<>>, by_uniprot |-> <<>>,
      by_ensembl |-> <<>>,
      zfin |-> [s \in {Str("P04637")} |-> z],
      chebi_by_name |-> [s \in {Str("H2O [cytosol]")} |-> cn],
      chebi_by_id |-> [s \in ChebiIds |-> ci]] :
        z \in {[kind |-> "norows"]}
              \cup {[kind |-> "rows", symbol |-> l] : l \in SeqsUpTo(ZfinSymbols, MaxCand)},
        cn \in BOOLEAN,
        ci \in {NoMatch, Chemical(Str("water"))}}

(***************************************************************************)
(* The resolver as a state machine: a record and a service are given, then *)
(* the variant's resolver is called on them.                               *)
(***************************************************************************)
InitResolver ==
    /\ \/ /\ source = "wikipathways" /\ node \in WPRecords /\ lookup \in WPLookups
          \* the WikiPathways resolver iterates no set
          /\ hash_seed = <<>>
       \/ /\ source = "reactome" /\ node \in ReactomeRecords /\ lookup \in ReactomeLookups
          /\ hash_seed \in HashSeeds
    /\ result = NoResult
    /\ queried = <<>>
    /\ result_again = NoResult

IdleResolver ==
    /\ source = "" /\ node = <<>> /\ lookup = <<>> /\ result = NoResult
    /\ queried = <<>> /\ result_again = NoResult /\ hash_seed = <<>>

ResolveWikiPathways ==
    /\ source = "wikipathways"
    /\ result = NoResult
    /\ result' = get_valid_gene_identifier(node, lookup)
    /\ queried' = get_valid_gene_identifier_queries(node, lookup)
    /\ UNCHANGED <<source, node, lookup, result_again, hash_seed,
                   graphVars, countVars, aggregateVars, tableVars, uriVars>>

\* the same record resolved a second time against the same service
ResolveWikiPathwaysAgain ==
    /\ source = "wikipathways"
    /\ result # NoResult /\ result_again = NoResult
    /\ result_again' = get_valid_gene_identifier(node, lookup)
    /\ queried' = get_valid_gene_identifier_queries(node, lookup)
    /\ UNCHANGED <<source, node, lookup, result, hash_seed,
                   graphVars, countVars, aggregateVars, tableVars, uriVars>>

ResolveReactome ==
    /\ source = "reactome"
    /\ result = NoResult
    /\ result' = get_valid_node_parameters(node, lookup, hash_seed)
    /\ queried' = get_valid_node_parameters_queries(node, lookup)
    /\ UNCHANGED <<source, node, lookup, result_again, hash_seed,
                   graphVars, countVars, aggregateVars, tableVars, uriVars>>

\* the same record resolved a second time in the same run of the interpreter
ResolveReactomeAgain ==
    /\ source = "reactome"
    /\ result # NoResult /\ result_again = NoResult
    /\ result_again' = get_valid_node_parameters(node, lookup, hash_seed)
    /\ queried' = get_valid_node_parameters_queries(node, lookup)
    /\ UNCHANGED <<source, node, lookup, result, hash_seed,
                   graphVars, countVars, aggregateVars, tableVars, uriVars>>

\* the same record resolved a second time in another run of the interpreter,
\* which salts its string hashes anew
ResolveReactomeRerun ==
    /\ source = "reactome"
    /\ result # NoResult /\ result_again = NoResult
    /\ \E seed \in HashSeeds :
          /\ hash_seed' = seed
          /\ result_again' = get_valid_node_parameters(node, lookup, seed)
    /\ queried' = get_valid_node_parameters_queries(node, lookup)
    /\ UNCHANGED <<source, node, lookup, result,
                   graphVars, countVars, aggregateVars, tableVars, uriVars>>

(***************************************************************************)
(* pathme/wikipathways/utils.py: convert_to_nx, on networkx.MultiDiGraph   *)
(*                                                                         *)
(* A MultiDiGraph is its node table (id -> attributes) and, per ordered    *)
(* pair with an edge, the attributes of its parallel edges in key order    *)
(* (networkx numbers the keys of a pair 0, 1, 2, ... as edges are added).  *)
(***************************************************************************)
MultiDiGraph(graph_att) ==
    [graph |-> [graph_att |-> graph_att], node |-> <<>>, adj |-> <<>>]

Put(d, k, v) == [x \in DOMAIN d \cup {k} |-> IF x = k THEN v ELSE d[x]]

\* graph.add_node(n, attr_dict=attributes)
add_node(G, n, attributes) ==
    [G EXCEPT !.node = Put(G.node, n, [attr_dict |-> attributes])]

\* add_edge with one edge per ordered pair, as a DiGraph keeps them
add_edge_simple(G, u, v, interaction) ==
    LET withU == IF u \in DOMAIN G.node THEN G.node ELSE Put(G.node, u, <<>>)
        withV == IF v \in DOMAIN withU THEN withU ELSE Put(withU, v, <<>>)
    IN  [G EXCEPT !.node = withV,
                  !.adj = Put(G.adj, <<u, v>>, <<[attr |-> interaction]>>)]

\* graph.add_edge(u, v, attr=interaction): missing end points become nodes,
\* the edge gets the pair's next key
add_edge(G, u, v, interaction) ==
    LET withU == IF u \in DOMAIN G.node THEN G.node ELSE Put(G.node, u, <<>>)
        withV == IF v \in DOMAIN withU THEN withU ELSE Put(withU, v, <<>>)
        keydict == IF <<u, v>> \in DOMAIN G.adj THEN G.adj[<<u, v>>] ELSE <<>>
    IN  [G EXCEPT !.node = withV,
                  !.adj = Put(G.adj, <<u, v>>, Append(keydict, [attr |-> interaction]))]

RECURSIVE AddNodes(_, _, _)
\* for node, attributes in nodes.items(): graph.add_node(...)
AddNodes(G, items, todo) ==
    IF todo = {} THEN G
    ELSE LET n == CHOOSE x \in todo : TRUE
         IN  AddNodes(add_node(G, n, items[n]), items, todo \ {n})

RECURSIVE AddEdges(_, _)
\* for subj, obj, interaction in interactions: graph.add_edge(...)
AddEdges(G, todo) ==
    IF todo = <<>> THEN G
    ELSE AddEdges(add_edge(G, todo[1][1], todo[1][2], todo[1][3]), Tail(todo))

convert_to_nx(ns, inters, info) ==
    AddEdges(AddNodes(MultiDiGraph(info), ns, DOMAIN ns), inters)

number_of_nodes(G) == Cardinality(DOMAIN G.node)

RECURSIVE SumLen(_, _)
SumLen(adj, pairs) ==
    IF pairs = {} THEN 0
    ELSE LET p == CHOOSE x \in pairs : TRUE
         IN  Len(adj[p]) + SumLen(adj, pairs \ {p})

number_of_edges(G) == SumLen(G.adj, DOMAIN G.adj)

NodeIds == {"A", "B", "C"}
InteractionTypes == {"phosphorylates", "inhibits"}
InteractionRecords ==
    {<<s, o, [type |-> t]>> : s \in NodeIds, o \in NodeIds, t \in InteractionTypes}

InitGraph ==
    /\ nodes \in {[n \in S |-> [name |-> n]] : S \in SUBSET NodeIds}
    /\ interactions \in SeqsUpTo(InteractionRecords, MaxInteractions)
    /\ pathway_info = [pathway_id |-> "WP22", pathway_name |-> "IL-9 signaling"]
    /\ graph = NoResult

IdleGraph ==
    nodes = <<>> /\ interactions = <<>> /\ pathway_info = <<>> /\ graph = NoResult

ConvertToNx ==
    /\ graph = NoResult
    /\ graph' = Return(convert_to_nx(nodes, interactions, pathway_info))
    /\ UNCHANGED <<nodes, interactions, pathway_info, resolverVars, countVars, aggregateVars,
                   tableVars, uriVars>>

(***************************************************************************)
(* pathme/utils.py: statistics functions                                   *)
(*                                                                         *)
(* A type occurrence is a string or a set of strings; a dict of counts is  *)
(* a function whose domain is the keys it holds.                           *)
(***************************************************************************)
Single(t) == [kind |-> "str", str |-> t]
CoOccurring(S) == [kind |-> "set", members |-> S]
PyNoneValue == [kind |-> "None"]

\* d[k] += n on a defaultdict(int)
AddTo(d, k, n) == Put(d, k, (IF k \in DOMAIN d THEN d[k] ELSE 0) + n)
\* d[k] on a defaultdict(int), read without inserting
Get(d, k) == IF k \in DOMAIN d THEN d[k] ELSE 0

RECURSIVE CountAllMembers(_, _, _)
\* the member loop without the primary_type test
CountAllMembers(stats, members, pt) ==
    IF members = {} THEN stats
    ELSE LET entry_type == CHOOSE x \in members : TRUE
         IN  CountAllMembers(AddTo(stats, entry_type, 1), members \ {entry_type}, pt)

RECURSIVE CountMembers(_, _, _)
\* for entry_type in entry_types: if entry_type != primary_type: count it
CountMembers(stats, members, pt) ==
    IF members = {} THEN stats
    ELSE LET entry_type == CHOOSE x \in members : TRUE
             counted1 == IF Single(entry_type) # pt THEN AddTo(stats, entry_type, 1)
                         ELSE stats
         IN  CountMembers(counted1, members \ {entry_type}, pt)

\* lines 184-189: one occurrence counted
CountEntry(stats, entry_types, pt) ==
    IF entry_types.kind = "set" THEN CountMembers(stats, entry_types.members, pt)
    ELSE AddTo(stats, entry_types.str, 1)

\* lines 191-196: the untyped counters, entered when kwargs has 'primary_type';
\* a Return of the counts, or the TypeError of {primary_type} when primary_type
\* is a set (a set is unhashable), raised before line 195 is reached
CountUntyped(stats, entry_types, pt, kwargs) ==
    IF "primary_type" \notin kwargs THEN Return(stats)
    ELSE IF pt.kind = "set" THEN Raise("TypeError")
    ELSE LET untyped == IF pt.kind = "str" /\ entry_types = CoOccurring({pt.str})
                        THEN AddTo(stats, "Untyped" \o pt.str, 1)
                        ELSE stats
         IN  IF pt = CoOccurring({"DirectedInteraction", "Interaction"})
             THEN Return(AddTo(untyped, "UntypedDirectedInteraction", 1))
             ELSE Return(untyped)

RECURSIVE CountTypes(_, _, _, _)
\* the loop over types_list
CountTypes(stats, todo, pt, kwargs) ==
    IF todo = <<>> THEN Return(stats)
    ELSE LET step == CountUntyped(CountEntry(stats, Head(todo), pt), Head(todo), pt, kwargs)
         IN  IF step.kind = "error" THEN step
             ELSE CountTypes(step.value, Tail(todo), pt, kwargs)

\* get_entry_statitics(types_list, primary_type=None, **kwargs): Python binds a
\* primary_type keyword to the parameter, so kwargs holds only other keywords
get_entry_statitics(tl, pt, kwargs) ==
    LET type_statistics == CountTypes(<<>>, tl, pt, kwargs)
    IN  IF type_statistics.kind = "error" THEN type_statistics
        ELSE Return(<<type_statistics.value, Len(tl)>>)

\* the keywords of a call that remain for **kwargs
Kwargs(keywords) == keywords \ {"types_list", "primary_type"}

\* lines 202-216: the statistics of one pathway
pathway_statistics_of(p) ==
    LET rdf_nodes == get_entry_statitics(p.nodes_types, PyNoneValue, {}).value
        rdf_edges == get_entry_statitics(p.edges_types, PyNoneValue, {}).value
    IN  [c \in {"RDF nodes", "RDF interactions", "BEL imported nodes",
                "BEL imported edges", "bel_vs_rdf"} |->
            CASE c = "RDF nodes" -> rdf_nodes[1]
              [] c = "RDF interactions" -> rdf_edges[1]
              [] c = "BEL imported nodes" -> p.bel_graph.functions
              [] c = "BEL imported edges" -> p.bel_graph.relations
              [] c = "bel_vs_rdf" ->
                    [k \in {"RDF nodes", "RDF interactions", "BEL imported nodes",
                            "BEL imported edges"} |->
                        CASE k = "RDF nodes" -> rdf_nodes[2]
                          [] k = "RDF interactions" -> rdf_edges[2]
                          [] k = "BEL imported nodes" -> p.bel_graph.number_of_nodes
                          [] k = "BEL imported edges" -> p.bel_graph.number_of_edges]]

RECURSIVE SetCounts(_, _, _)
\* the inner loop with = in place of +=
SetCounts(totals, rdf_types, todo) ==
    IF todo = {} THEN totals
    ELSE LET rdf_type == CHOOSE x \in todo : TRUE
         IN  SetCounts(Put(totals, rdf_type, rdf_types[rdf_type]), rdf_types,
                       todo \ {rdf_type})

RECURSIVE AddCounts(_, _, _)
\* for rdf_type, value in rdf_types.items(): global_statistics[...][rdf_type] += value
AddCounts(totals, rdf_types, todo) ==
    IF todo = {} THEN totals
    ELSE LET rdf_type == CHOOSE x \in todo : TRUE
         IN  AddCounts(AddTo(totals, rdf_type, rdf_types[rdf_type]), rdf_types,
                       todo \ {rdf_type})

RECURSIVE MergeInto(_, _, _)
\* lines 220-225: every category's counts added to the accumulator, an empty
\* category skipped; the accumulator is a defaultdict of defaultdict(int)
MergeInto(gs, ps, todo) ==
    IF todo = {} THEN gs
    ELSE LET statistics_type == CHOOSE x \in todo : TRUE
             rdf_types == ps[statistics_type]
             totals == IF statistics_type \in DOMAIN gs THEN gs[statistics_type] ELSE <<>>
         IN  IF DOMAIN rdf_types = {}
             THEN MergeInto(gs, ps, todo \ {statistics_type})
             ELSE MergeInto(Put(gs, statistics_type,
                                AddCounts(totals, rdf_types, DOMAIN rdf_types)),
                            ps, todo \ {statistics_type})

\* get_pathway_statitics keeping the entry a name already has in the side table
get_pathway_statitics_keeps_entry(p, gs, aps, kwargs) ==
    LET pathway_statistics == pathway_statistics_of(p)
    IN  IF "global_statistics" \in kwargs
        THEN [global_statistics |-> MergeInto(gs, pathway_statistics, DOMAIN pathway_statistics),
              all_pathways_statistics |->
                  IF "all_pathways_statistics" \in kwargs /\ p.bel_graph.name \notin DOMAIN aps
                  THEN Put(aps, p.bel_graph.name, pathway_statistics)
                  ELSE aps]
        ELSE [global_statistics |-> gs, all_pathways_statistics |-> aps]

\* get_pathway_statitics(nodes_types, edges_types, bel_graph, **kwargs) on the
\* accumulator gs and side table aps: what the call leaves in them
get_pathway_statitics(p, gs, aps, kwargs) ==
    LET pathway_statistics == pathway_statistics_of(p)
    IN  IF "global_statistics" \in kwargs
        THEN [global_statistics |-> MergeInto(gs, pathway_statistics, DOMAIN pathway_statistics),
              all_pathways_statistics |->
                  IF "all_pathways_statistics" \in kwargs
                  THEN Put(aps, p.bel_graph.name, pathway_statistics)
                  ELSE aps]
        ELSE [global_statistics |-> gs, all_pathways_statistics |-> aps]

OccurrenceUniverse ==
    {Single("Protein"), Single("DataNode"), Single("Interaction"),
     CoOccurring({"Protein", "DataNode"}), CoOccurring({"DataNode"}),
     CoOccurring({"DirectedInteraction", "Interaction"}), CoOccurring({"Interaction"})}
PrimaryTypes == {PyNoneValue, Single("DataNode"), Single("Interaction")}

InitCount ==
    /\ types_list \in SeqsUpTo(OccurrenceUniverse, MaxOccurrences)
    /\ primary_type \in PrimaryTypes
    /\ counted = NoResult

IdleCount == types_list = <<>> /\ primary_type = PyNoneValue /\ counted = NoResult

\* get_entry_statitics(types_list) or get_entry_statitics(types_list, primary_type=...)
CountCall ==
    /\ counted = NoResult
    /\ LET keywords == IF primary_type = PyNoneValue THEN {} ELSE {"primary_type"}
       IN  counted' = get_entry_statitics(types_list, primary_type, Kwargs(keywords))
    /\ UNCHANGED <<types_list, primary_type, resolverVars, graphVars, aggregateVars,
                   tableVars, uriVars>>

BelGraph(name, functions, relations, n, e) ==
    [name |-> name, functions |-> functions, relations |-> relations,
     number_of_nodes |-> n, number_of_edges |-> e]
\* what the parsers and the BEL conversion hand over for one pathway
PathwayContents ==
    {[nodes_types |-> <<Single("Protein"), CoOccurring({"Protein", "DataNode"})>>,
      edges_types |-> <<>>,
      functions |-> [Protein |-> 2], relations |-> <<>>,
      number_of_nodes |-> 2, number_of_edges |-> 0],
     [nodes_types |-> <<Single("Protein"), Single("Metabolite")>>,
      edges_types |-> <<CoOccurring({"DirectedInteraction", "Interaction"})>>,
      functions |-> [Protein |-> 1, Abundance |-> 1], relations |-> [increases |-> 1],
      number_of_nodes |-> 2, number_of_edges |-> 1]}
PathwayNames == {"P1", "P2", "P3"}
Pathway(name, c) ==
    [nodes_types |-> c.nodes_types, edges_types |-> c.edges_types,
     bel_graph |-> BelGraph(name, c.functions, c.relations,
                            c.number_of_nodes, c.number_of_edges)]

InitAggregate ==
    /\ pathways \in {[n \in PathwayNames |-> Pathway(n, f[n])] :
                        f \in [PathwayNames -> PathwayContents]}
    /\ global_statistics = <<>>
    /\ all_pathways_statistics = <<>>
    /\ processed = <<>>
    /\ global_statistics_b = <<>>
    /\ processed_b = <<>>
    /\ calls = <<>>

IdleAggregate ==
    /\ pathways = <<>> /\ global_statistics = <<>> /\ all_pathways_statistics = <<>>
    /\ processed = <<>> /\ global_statistics_b = <<>> /\ processed_b = <<>>
    /\ calls = <<>>

Occurrences(names, n) == Cardinality({i \in DOMAIN names : names[i] = n})

\* get_pathway_statitics(..., global_statistics=..., all_pathways_statistics=...)
Aggregate(name) ==
    /\ Len(processed) < MaxAggregations
    /\ LET out == get_pathway_statitics(pathways[name], global_statistics,
                                        all_pathways_statistics,
                                        Kwargs({"global_statistics", "all_pathways_statistics"}))
       IN  /\ global_statistics' = out.global_statistics
           /\ all_pathways_statistics' = out.all_pathways_statistics
    /\ processed' = Append(processed, name)
    /\ UNCHANGED <<pathways, global_statistics_b, processed_b, calls,
                   resolverVars, graphVars, countVars, tableVars, uriVars>>

\* get_pathway_statitics(..., global_statistics=...) on the second accumulator,
\* which is fed the pathways of the first one in any other order
AggregateB(name) ==
    /\ Len(processed_b) < MaxAggregations
    /\ Occurrences(processed_b, name) < Occurrences(processed, name)
    /\ LET out == get_pathway_statitics(pathways[name], global_statistics_b,
                                        all_pathways_statistics,
                                        Kwargs({"global_statistics"}))
       IN  /\ global_statistics_b' = out.global_statistics
           /\ all_pathways_statistics' = out.all_pathways_statistics
    /\ processed_b' = Append(processed_b, name)
    /\ UNCHANGED <<pathways, global_statistics, processed, calls,
                   resolverVars, graphVars, countVars, tableVars, uriVars>>

\* a run that records every pathway in the side table: the names may repeat,
\* each time with contents of their own
RecordedNames == {"P1", "P2"}
InitRecord ==
    /\ pathways = <<>>
    /\ global_statistics = <<>>
    /\ all_pathways_statistics = <<>>
    /\ processed = <<>>
    /\ global_statistics_b = <<>>
    /\ processed_b = <<>>
    /\ calls = <<>>

\* one call of get_pathway_statitics with the given keyword arguments
Call(name, c, keywords) ==
    /\ Len(calls) < MaxAggregations
    /\ LET out == get_pathway_statitics(Pathway(name, c), global_statistics,
                                        all_pathways_statistics, Kwargs(keywords))
       IN  /\ global_statistics' = out.global_statistics
           /\ all_pathways_statistics' = out.all_pathways_statistics
    /\ calls' = Append(calls, [name |-> name, contents |-> c, keywords |-> keywords])
    /\ UNCHANGED <<pathways, processed, global_statistics_b, processed_b,
                   resolverVars, graphVars, countVars, tableVars, uriVars>>

\* get_pathway_statitics(..., global_statistics=..., all_pathways_statistics=...)
AggregateAndRecord(name, c) ==
    Call(name, c, {"global_statistics", "all_pathways_statistics"})
\* get_pathway_statitics(..., global_statistics=...)
AggregateOnly(name, c) ==
    Call(name, c, {"global_statistics"})
\* get_pathway_statitics(..., all_pathways_statistics=...)
RecordOnly(name, c) ==
    Call(name, c, {"all_pathways_statistics"})

(***************************************************************************)
(* pathme/utils.py: statistics_to_df                                       *)
(*                                                                         *)
(* The argument is a dict, modelled as the sequence of its (name,          *)
(* statistics) items; the columns are a dict from column name to the list  *)
(* of cells appended to it.                                                *)
(***************************************************************************)
\* lines 281-284: the types seen under each category, over all pathways
ColumnPrimaryTypes(items, c) ==
    UNION {DOMAIN items[i][2][c] : i \in {j \in DOMAIN items : c \in DOMAIN items[j][2]}}
ColumnTypes(items) ==
    UNION {UNION {DOMAIN items[i][2][c] : c \in DOMAIN items[i][2]} : i \in DOMAIN items}

ColumnName(column_type, statistic_primary_type) ==
    "\"" \o column_type \o "\" " \o statistic_primary_type

AppendCell(cols, name, cell) ==
    Put(cols, name, Append(IF name \in DOMAIN cols THEN cols[name] ELSE <<>>, cell))

RECURSIVE AppendCells(_, _, _, _)
\* lines 288-294 for one pathway: for every type and every category of this
\* pathway, the count as a string, or '' when the type is known under the
\* category for another pathway
AppendCells(cols, items, statistics, todo) ==
    IF todo = {} THEN cols
    ELSE LET pair == CHOOSE x \in todo : TRUE
             column_type == pair[1]
             statistic_primary_type == pair[2]
             statistic_dict == statistics[statistic_primary_type]
             name == ColumnName(column_type, statistic_primary_type)
             next == IF column_type \in DOMAIN statistic_dict
                     THEN AppendCell(cols, name, ToString(statistic_dict[column_type]))
                     ELSE IF column_type \in ColumnPrimaryTypes(items, statistic_primary_type)
                     THEN AppendCell(cols, name, "")
                     ELSE cols
         IN  AppendCells(next, items, statistics, todo \ {pair})

RECURSIVE AppendRows(_, _, _)
\* lines 286-294: the loop over the pathways
AppendRows(cols, items, i) ==
    IF i > Len(items) THEN cols
    ELSE AppendRows(AppendCells(cols, items, items[i][2],
                                ColumnTypes(items) \X DOMAIN items[i][2]),
                    items, i + 1)

\* pd.DataFrame(data=..., index=rows): a column of one cell is repeated to the
\* length of the index; any other column must be as long as the index
DataFrame(data, index) ==
    IF \E name \in DOMAIN data : Len(data[name]) # Len(index) /\ Len(data[name]) # 1
    THEN Raise("ValueError")
    ELSE Return([columns |-> [name \in DOMAIN data |->
                                 IF Len(data[name]) = Len(index) THEN data[name]
                                 ELSE [i \in DOMAIN index |-> data[name][1]]],
                 index |-> index])

statistics_to_df(items) ==
    LET rows == [i \in DOMAIN items |-> items[i][1]]
        pathways_statistics == AppendRows(<<>>, items, 1)
    IN  DataFrame(pathways_statistics, rows)

TableCategories == {"nodes", "edges"}
NodesDicts == {<<>>, [Protein |-> 2], [Protein |-> 1], [Gene |-> 1], [Protein |-> 2, Gene |-> 1]}
EdgesDicts == {<<>>, [Gene |-> 3]}
\* the statistics of one pathway: each category absent or present
TableStatistics ==
    {[c \in {"nodes" : d \in n} \cup {"edges" : d \in e} |->
         IF c = "nodes" THEN CHOOSE d \in n : TRUE ELSE CHOOSE d \in e : TRUE] :
        n \in OptionOf(NodesDicts), e \in OptionOf(EdgesDicts)}
RowName(i) == "P" \o ToString(i)

InitTable ==
    /\ df_input \in {[i \in DOMAIN sts |-> <<RowName(i), sts[i]>>] :
                        sts \in SeqsUpTo(TableStatistics, MaxPathways)}
    /\ df = NoResult

IdleTable == df_input = <<>> /\ df = NoResult

StatisticsToDf ==
    /\ df = NoResult
    /\ df' = statistics_to_df(df_input)
    /\ UNCHANGED <<df_input, resolverVars, graphVars, countVars, aggregateVars, uriVars>>

ParseIdUri ==
    /\ parsed_uri = NoResult
    /\ parsed_uri' = parse_id_uri(given_uri)
    /\ UNCHANGED <<given_uri, resolverVars, graphVars, countVars, aggregateVars, tableVars>>

Init == InitResolver /\ IdleGraph /\ IdleCount /\ IdleAggregate /\ IdleTable /\ IdleUri
Next ==
    \/ ResolveWikiPathways
    \/ ResolveReactome
    \/ ResolveWikiPathwaysAgain
    \/ ResolveReactomeAgain
    \/ ResolveReactomeRerun
Spec == Init /\ [][Next]_vars

InitGraphSpec ==
    InitGraph /\ IdleResolver /\ IdleCount /\ IdleAggregate /\ IdleTable /\ IdleUri
NextGraph == ConvertToNx
SpecGraph == InitGraphSpec /\ [][NextGraph]_vars

InitCountSpec ==
    InitCount /\ IdleResolver /\ IdleGraph /\ IdleAggregate /\ IdleTable /\ IdleUri
NextCount == CountCall
SpecCount == InitCountSpec /\ [][NextCount]_vars

InitAggregateSpec ==
    InitAggregate /\ IdleResolver /\ IdleGraph /\ IdleCount /\ IdleTable /\ IdleUri
NextAggregate == \E name \in PathwayNames : Aggregate(name) \/ AggregateB(name)
SpecAggregate == InitAggregateSpec /\ [][NextAggregate]_vars

InitRecordSpec ==
    InitRecord /\ IdleResolver /\ IdleGraph /\ IdleCount /\ IdleTable /\ IdleUri
NextRecord ==
    \E name \in RecordedNames, c \in PathwayContents :
        \/ AggregateAndRecord(name, c)
        \/ AggregateOnly(name, c)
        \/ RecordOnly(name, c)
SpecRecord == InitRecordSpec /\ [][NextRecord]_vars

InitUriSpec ==
    InitUri /\ IdleResolver /\ IdleGraph /\ IdleCount /\ IdleAggregate /\ IdleTable
NextUri == ParseIdUri
SpecUri == InitUriSpec /\ [][NextUri]_vars

InitTableSpec ==
    InitTable /\ IdleResolver /\ IdleGraph /\ IdleCount /\ IdleAggregate /\ IdleUri
NextTable == StatisticsToDf
SpecTable == InitTableSpec /\ [][NextTable]_vars

(***************************************************************************)
(* Claims about the resolver                                               *)
(***************************************************************************)
Called == result # NoResult
IsWP == source = "wikipathways"
IsReactome == source = "reactome"

\* the UniProt-hint records of C1 and the candidates their lookup returns
WPUniprotHint ==
    /\ IsWP /\ Has(node, "bdb_uniprot")
    /\ ~Has(node, "bdb_hgncsymbol") /\ ~Has(node, "bdb_ncbigene")
WPUniprotAnswer == get_gene_by_uniprot_id(lookup, node["bdb_uniprot"])
ReactomeUniprotHint ==
    /\ IsReactome /\ Has(node, "uri_id")
    /\ parse_id_uri(node["uri_id"]).kind = "ok"
    /\ parse_id_uri(node["uri_id"]).value[3] = Str("uniprot")
ReactomeUniprotAnswer == zfin_query(lookup, parse_id_uri(node["uri_id"]).value[4])

\* C1: a UniProt-hint record whose lookup returns more than one candidate resolves
\* to namespace hgnc_multiple_entry with the whole candidate collection as its
\* identifier, in both resolver variants.
C1_MultipleEntryKeepsAllCandidates ==
    /\ (Called /\ WPUniprotHint /\ WPUniprotAnswer.kind = "list"
          /\ Len(WPUniprotAnswer.items) > 1)
       => /\ result.kind = "ok"
          /\ result.value[1] = HGNC_MULTIPLE_ENTRY
          /\ result.value[3] = WPUniprotAnswer.items
    /\ (Called /\ ReactomeUniprotHint /\ ReactomeUniprotAnswer.kind = "rows"
          /\ Len(ReactomeUniprotAnswer.symbol) > 1)
       => /\ result.kind = "ok"
          /\ result.value[3] = HGNC_MULTIPLE_ENTRY
          /\ result.value[1] = ReactomeUniprotAnswer.symbol

WPSymbolHit ==
    /\ IsWP /\ Has(node, "bdb_hgncsymbol")
    /\ Truthy(get_gene_by_hgnc_symbol(lookup, node["bdb_hgncsymbol"]))

\* C2: a record with an HGNC-symbol hint whose symbol lookup returns a gene
\* resolves to (HGNC, the gene's symbol, the gene's identifier), whatever other
\* hints the record carries.
C2_SymbolHitGivesHgncTriple ==
    (Called /\ WPSymbolHit)
    => LET gene == get_gene_by_hgnc_symbol(lookup, node["bdb_hgncsymbol"])
       IN  result = Return(<<HGNC, gene.symbol, gene.identifier>>)

\* C2's case: the symbol lookup hit on a record that also carries Entrez and
\* UniProt hints, and the resolver has returned
C2_Witness ==
    /\ Called /\ WPSymbolHit
    /\ Has(node, "bdb_ncbigene") /\ Has(node, "bdb_uniprot")
    /\ result.kind = "ok"

\* the records that carry none of the hints a resolver recognises
WPNoHint ==
    /\ IsWP
    /\ WPHintKeys \cap DOMAIN node = {}
    /\ Has(node, "uri_id") => ~Contains(node["uri_id"], "ec-code")
ReactomeNoHint ==
    /\ IsReactome
    /\ ~Has(node, "uri_reactome_id") /\ ~Has(node, "reactome_id")
    /\ Has(node, "uri_id") =>
         \/ parse_id_uri(node["uri_id"]).kind = "error"
         \/ parse_id_uri(node["uri_id"]).value[3] \notin
              {Str("uniprot"), Str("ensembl"), Str("obo"), Str("chebi"), Str("CHEBI")}

\* C3: a record with none of the recognised hints ends in an error and never
\* returns a triple (any raised error is taken for the unresolved-identifier one).
C3_NoHintRaises ==
    (Called /\ (WPNoHint \/ ReactomeNoHint)) => result.kind = "error"

\* what the claimed precedence gives a WikiPathways record: the branch of the
\* highest-ranked hint present, in the order HGNC symbol, Entrez, UniProt,
\* Ensembl, EC code, generic external-database id
ByPrecedence(n, lk) ==
    IF Has(n, "bdb_hgncsymbol")
    THEN _validate_query(lk, get_gene_by_hgnc_symbol(lk, n["bdb_hgncsymbol"]),
                         n["bdb_hgncsymbol"], HGNC)
    ELSE IF Has(n, "bdb_ncbigene")
    THEN _validate_query(lk, get_gene_by_entrez_id(lk, n["bdb_ncbigene"]),
                         n["bdb_ncbigene"], ENTREZ)
    ELSE IF Has(n, "bdb_uniprot")
    THEN _validate_query(lk, get_gene_by_uniprot_id(lk, n["bdb_uniprot"]),
                         n["bdb_uniprot"], UNIPROT)
    ELSE IF Has(n, "bdb_ensembl")
    THEN _validate_query(lk, get_gene_by_ensembl_id(lk, n["bdb_ensembl"]),
                         n["bdb_ensembl"], ENSEMBL)
    ELSE IF Contains(n["uri_id"], "ec-code")
    THEN Return(<<EXPASY, n["name"], n["name"]>>)
    ELSE LET hgnc_entry == get_gene_by_hgnc_symbol(lk, n["name"])
         IN  IF Truthy(hgnc_entry)
             THEN Return(<<HGNC, hgnc_entry.symbol, hgnc_entry.identifier>>)
             ELSE Return(<<WIKIPATHWAYS, n["name"], n["name"]>>)

\* the records C10 is about: a uri_id, a name, and at least one hint
WPSomeHint ==
    /\ IsWP /\ Has(node, "uri_id") /\ Has(node, "name")
    /\ \/ WPHintKeys \cap DOMAIN node # {}
       \/ Contains(node["uri_id"], "ec-code")

\* C10: the triple returned for a record with several hints is the one of the
\* highest-ranked hint present, in the order HGNC symbol, Entrez gene, UniProt,
\* Ensembl, EC code, generic external-database id.
C10_FirstMatchingBranchWins ==
    (Called /\ WPSomeHint) => result = ByPrecedence(node, lookup)

\* the records whose only gene hint is an Ensembl one
WPEnsemblOnly ==
    /\ IsWP /\ Has(node, "bdb_ensembl")
    /\ ~Has(node, "bdb_hgncsymbol") /\ ~Has(node, "bdb_ncbigene") /\ ~Has(node, "bdb_uniprot")
ReactomeEnsemblHint ==
    /\ IsReactome /\ Has(node, "uri_id")
    /\ parse_id_uri(node["uri_id"]).kind = "ok"
    /\ parse_id_uri(node["uri_id"]).value[3] = Str("ensembl")

\* C11: a record whose only gene hint is an Ensembl hint is resolved by one query
\* of the Ensembl lookup with the Ensembl identifier, giving (HGNC, symbol,
\* identifier) on a match and the original identifier under Ensembl on a miss;
\* in the Reactome variant the Ensembl branch returns a triple.
C11_EnsemblHintUsesEnsemblLookup ==
    /\ (Called /\ WPEnsemblOnly)
       => LET ensembl_id == node["bdb_ensembl"]
              gene == get_gene_by_ensembl_id(lookup, ensembl_id)
          IN  /\ queried = <<Query("get_gene_by_ensembl_id", ensembl_id)>>
              /\ result = IF Truthy(gene)
                          THEN Return(<<HGNC, gene.symbol, gene.identifier>>)
                          ELSE Return(<<ENSEMBL, ensembl_id, ensembl_id>>)
    /\ (Called /\ ReactomeEnsemblHint) => result.kind = "ok"

\* the records whose HGNC-symbol lookup misses
WPSymbolMiss ==
    /\ IsWP /\ Has(node, "bdb_hgncsymbol")
    /\ ~Truthy(get_gene_by_hgnc_symbol(lookup, node["bdb_hgncsymbol"]))
\* the records resolved by their Entrez hint, or by their UniProt hint, whose
\* lookup misses
WPEntrezMiss ==
    /\ IsWP /\ ~Has(node, "bdb_hgncsymbol") /\ Has(node, "bdb_ncbigene")
    /\ ~Truthy(get_gene_by_entrez_id(lookup, node["bdb_ncbigene"]))
WPUniprotMiss ==
    /\ WPUniprotHint
    /\ ~Truthy(get_gene_by_uniprot_id(lookup, node["bdb_uniprot"]))
WPEnsemblMiss ==
    /\ WPEnsemblOnly
    /\ ~Truthy(get_gene_by_ensembl_id(lookup, node["bdb_ensembl"]))
AliasQueries ==
    Cardinality({i \in DOMAIN queried : queried[i][1] = "get_hgnc_from_alias_symbol"})

\* C12: when the lookup of an HGNC-symbol hint misses, the alias lookup is queried
\* exactly once, after the symbol lookup: an alias hit gives (HGNC, gene.symbol,
\* gene.identifier), an alias miss gives the symbol as name and identifier under
\* HGNC, and no error is raised. A record without a symbol hint never has the
\* alias lookup consulted, and a missed Entrez, UniProt or Ensembl lookup gives
\* the original identifier under its own namespace.
C12_AliasFallbackOnceOnSymbolMiss ==
    /\ (Called /\ WPSymbolMiss)
       => LET symbol == node["bdb_hgncsymbol"]
              alias == get_hgnc_from_alias_symbol(lookup, symbol)
          IN  /\ AliasQueries = 1
              /\ queried = <<Query("get_gene_by_hgnc_symbol", symbol),
                             Query("get_hgnc_from_alias_symbol", symbol)>>
              /\ result = IF Truthy(alias)
                          THEN Return(<<HGNC, alias.symbol, alias.identifier>>)
                          ELSE Return(<<HGNC, symbol, symbol>>)
    /\ (Called /\ IsWP /\ ~Has(node, "bdb_hgncsymbol")) => AliasQueries = 0
    /\ (Called /\ WPEntrezMiss)
       => result = Return(<<ENTREZ, node["bdb_ncbigene"], node["bdb_ncbigene"]>>)
    /\ (Called /\ WPUniprotMiss)
       => result = Return(<<UNIPROT, node["bdb_uniprot"], node["bdb_uniprot"]>>)
    /\ (Called /\ WPEnsemblMiss)
       => result = Return(<<ENSEMBL, node["bdb_ensembl"], node["bdb_ensembl"]>>)

\* the namespaces a triple may carry, as the two variants spell them
NamespaceEnumeration ==
    {HGNC, UNIPROT, ENSEMBL, ENTREZ, Str("chebi"), Str("CHEBI"), EXPASY, Str("reactome"),
     WIKIPATHWAYS, UNKNOWN, HGNC_MULTIPLE_ENTRY}
\* the namespace of the returned triple: first in the WikiPathways variant's
\* (namespace, name, identifier), last in Reactome's (identifier, name, namespace)
ReturnedNamespace == IF IsWP THEN result.value[1] ELSE result.value[3]

\* C14: every triple a resolver returns has its namespace in the fixed
\* enumeration; a namespace segment of the record's URI outside it is never
\* returned as is, and the namespace is never None.
C14_NamespaceInEnumeration ==
    (Called /\ result.kind = "ok") => ReturnedNamespace \in NamespaceEnumeration

CalledTwice == result_again # NoResult

\* C15: the second resolution of a record against the same service gives the
\* outcome of the first, also when the name is a set of several names collapsed
\* to one member, and no call changes the record.
C15_SecondCallSameTriple ==
    [][/\ CalledTwice' => result_again' = result'
       /\ node' = node]_vars

(***************************************************************************)
(* Claims about the URI decomposer                                         *)
(***************************************************************************)
Parsed == parsed_uri # NoResult
Min(a, b) == IF a < b THEN a ELSE b
\* the segments from the i-th to the j-th, joined by '/'; empty when there are none
Joined(segs, i, j) == IF i > j THEN <<>> ELSE Join(SubSeq(segs, i, j), SLASH)

\* C16: a URI of n >= 2 slash-delimited segments decomposes into the first three
\* segments (all of them when there are fewer) joined by '/', the segments from
\* the fourth to the one before the second-to-last joined by '/' (empty when
\* there are none), the second-to-last segment and the last segment; a URI of
\* fewer than two segments ends in an error.
C16_FourPartsOrError ==
    Parsed =>
        LET segs == Split(given_uri, SLASH)
            n == Len(segs)
        IN  IF n < 2 THEN parsed_uri.kind = "error"
            ELSE parsed_uri = Return(<<Joined(segs, 1, Min(3, n)), Joined(segs, 4, n - 2),
                                       segs[n - 1], segs[n]>>)

\* C16's case: a URI of seven segments has been decomposed, its intermediate
\* path being the fourth and fifth segments
C16_Witness ==
    /\ Parsed /\ parsed_uri.kind = "ok"
    /\ given_uri = <<"a", "/", "/", "a", "/", "b", "c", "/", "a", "/", "b", "c", "/", "a">>
    /\ parsed_uri.value = <<<<"a", "/", "/", "a">>, <<"b", "c", "/", "a">>, <<"b", "c">>, <<"a">>>>

(***************************************************************************)
(* Claims about the multigraph builder                                     *)
(***************************************************************************)
Built == graph.kind = "ok"
EndPoints == {interactions[i][1] : i \in DOMAIN interactions}
                 \cup {interactions[i][2] : i \in DOMAIN interactions}
Between(u, v) == {i \in DOMAIN interactions : interactions[i][1] = u /\ interactions[i][2] = v}

\* C4 as claimed: from N nodes and M interaction records the builder returns a
\* graph of exactly N nodes and exactly M edges.
C4_ExactlyNNodesMEdges ==
    Built => /\ number_of_nodes(graph.value) = Cardinality(DOMAIN nodes)
             /\ number_of_edges(graph.value) = Len(interactions)

\* C4 amended: exactly M edges, k interactions of one ordered pair being k
\* parallel edges carrying their attributes in order; the nodes are the N given
\* ids and the interaction end points, so exactly N when every end point is a
\* given id.
C4_MEdgesAndNodesWithEndPoints ==
    Built =>
        /\ number_of_edges(graph.value) = Len(interactions)
        /\ \A u \in NodeIds, v \in NodeIds :
              LET k == Cardinality(Between(u, v))
              IN  IF k = 0 THEN <<u, v>> \notin DOMAIN graph.value.adj
                  ELSE /\ Len(graph.value.adj[<<u, v>>]) = k
                       /\ \A j \in 1..k :
                             \E i \in Between(u, v) :
                                /\ Cardinality({h \in Between(u, v) : h <= i}) = j
                                /\ graph.value.adj[<<u, v>>][j] = [attr |-> interactions[i][3]]
        /\ DOMAIN graph.value.node = DOMAIN nodes \cup EndPoints
        /\ \A n \in DOMAIN nodes : graph.value.node[n] = [attr_dict |-> nodes[n]]
        /\ EndPoints \subseteq DOMAIN nodes
              => number_of_nodes(graph.value) = Cardinality(DOMAIN nodes)

\* C4's case: two interactions of the same ordered pair, between given nodes
C4_Witness ==
    /\ Built
    /\ Len(interactions) = 2
    /\ interactions[1][1] = interactions[2][1] /\ interactions[1][2] = interactions[2][2]
    /\ interactions[1][1] # interactions[1][2]
    /\ interactions[1][3] # interactions[2][3]
    /\ EndPoints \subseteq DOMAIN nodes
    /\ number_of_edges(graph.value) = 2

(***************************************************************************)
(* Claims about the type statistics                                        *)
(***************************************************************************)
CountReturned == counted.kind = "ok"
CountedTypes == {"Protein", "DataNode", "Interaction", "DirectedInteraction"}
SinglesOf(T) == Cardinality({i \in DOMAIN types_list : types_list[i] = Single(T)})
SetsWith(T) ==
    Cardinality({i \in DOMAIN types_list :
                    types_list[i].kind = "set" /\ T \in types_list[i].members})
SpecExample == <<Single("Protein"), CoOccurring({"Protein", "DataNode"}), Single("Protein")>>

\* C5: count_types maps every type other than primary_type to its single
\* occurrences plus the set occurrences holding it, primary_type gets nothing
\* from set occurrences, and the total is the number of occurrences; the spec's
\* example gives {Protein: 3} and total 3.
C5_CountsSinglesPlusSets ==
    CountReturned =>
        /\ \A T \in CountedTypes :
              Get(counted.value[1], T) =
                  IF Single(T) = primary_type THEN SinglesOf(T)
                  ELSE SinglesOf(T) + SetsWith(T)
        /\ counted.value[2] = Len(types_list)
        /\ (types_list = SpecExample /\ primary_type = Single("DataNode"))
              => counted.value = <<[Protein |-> 3], 3>>

\* C5's case: the spec's example has been counted
C5_Witness ==
    /\ CountReturned
    /\ types_list = SpecExample
    /\ primary_type = Single("DataNode")

\* the occurrences that are exactly the given set of types
SetsEqual(S) == Cardinality({i \in DOMAIN types_list : types_list[i] = CoOccurring(S)})

\* C13: called with a primary_type, count_types gives 'Untyped<primary_type>'
\* the number of occurrences that are exactly {primary_type}, and gives
\* 'UntypedDirectedInteraction' one for every occurrence that is the set
\* {DirectedInteraction, Interaction}.
C13_UntypedCounters ==
    (CountReturned /\ primary_type # PyNoneValue) =>
        /\ Get(counted.value[1], "Untyped" \o primary_type.str) = SetsEqual({primary_type.str})
        /\ Get(counted.value[1], "UntypedDirectedInteraction") =
              SetsEqual({"DirectedInteraction", "Interaction"})

StatCategories ==
    {"RDF nodes", "RDF interactions", "BEL imported nodes", "BEL imported edges", "bel_vs_rdf"}
StatTypes ==
    {"Protein", "DataNode", "Metabolite", "DirectedInteraction", "Interaction",
     "Abundance", "increases"} \cup StatCategories
\* the accumulator's total for a (category, type), 0 when it holds none
Total(gs, c, t) == IF c \in DOMAIN gs THEN Get(gs[c], t) ELSE 0
\* every pathway's own statistics
PathwayLevel ==
    [P1 |-> pathway_statistics_of(pathways["P1"]),
     P2 |-> pathway_statistics_of(pathways["P2"]),
     P3 |-> pathway_statistics_of(pathways["P3"])]

RECURSIVE SumOver(_, _, _, _)
\* the sum of the pathway-level counts of a (category, type) over names
SumOver(level, names, c, t) ==
    IF names = <<>> THEN 0
    ELSE Get(level[Head(names)][c], t) + SumOver(level, Tail(names), c, t)

IsPermutation(a, b) == \A n \in PathwayNames : Occurrences(a, n) = Occurrences(b, n)
KeysKnown(gs) ==
    /\ DOMAIN gs \subseteq StatCategories
    /\ \A c \in DOMAIN gs : DOMAIN gs[c] \subseteq StatTypes

\* C6: two accumulators that have aggregated the same pathways, each in its own
\* order, hold the same total for every (category, type).
C6_OrderDoesNotMatter ==
    IsPermutation(processed, processed_b) =>
        /\ KeysKnown(global_statistics) /\ KeysKnown(global_statistics_b)
        /\ \A c \in StatCategories, t \in StatTypes :
              Total(global_statistics, c, t) = Total(global_statistics_b, c, t)

\* C6's case: P1 then P2 into one accumulator, P2 then P1 into the other, the
\* two pathways having different statistics
C6_Witness ==
    /\ processed = <<"P1", "P2">>
    /\ processed_b = <<"P2", "P1">>
    /\ pathway_statistics_of(pathways["P1"]) # pathway_statistics_of(pathways["P2"])
    /\ Total(global_statistics, "RDF nodes", "Protein") = 3

TotalsAreSums(gs, names) ==
    LET level == PathwayLevel
    IN  /\ KeysKnown(gs)
        /\ \A c \in StatCategories, t \in StatTypes :
              Total(gs, c, t) = SumOver(level, names, c, t)

NeverLowered ==
    \A c \in StatCategories, t \in StatTypes :
        /\ Total(global_statistics', c, t) >= Total(global_statistics, c, t)
        /\ Total(global_statistics_b', c, t) >= Total(global_statistics_b, c, t)

\* C7: after any sequence of aggregations the accumulator's total for every
\* (category, type) is the sum of that pathway-level count over the pathways
\* aggregated so far, and no aggregation lowers a total.
C7_TotalsAreSumsNeverLowered ==
    /\ TotalsAreSums(global_statistics, processed)
    /\ TotalsAreSums(global_statistics_b, processed_b)
    /\ [][/\ TotalsAreSums(global_statistics', processed')
          /\ TotalsAreSums(global_statistics_b', processed_b')
          /\ NeverLowered]_vars

\* C7's case: the same pathway aggregated twice and another one once, the
\* total being the sum of the three contributions
C7_Witness ==
    /\ Len(processed) = 3
    /\ processed[1] = processed[3] /\ processed[1] # processed[2]
    /\ pathway_statistics_of(pathways[processed[1]]) # pathway_statistics_of(pathways[processed[2]])
    /\ Total(global_statistics, "RDF nodes", "Protein") = 5

\* the calls that were given both the accumulator and the side table
RecordingCalls ==
    {i \in DOMAIN calls :
        {"global_statistics", "all_pathways_statistics"} \subseteq calls[i].keywords}
\* the latest of them for a pathway name
LatestRecording(n) ==
    CHOOSE i \in RecordingCalls :
        /\ calls[i].name = n
        /\ \A j \in RecordingCalls : calls[j].name = n => j <= i
StatisticsOfCall(i) == pathway_statistics_of(Pathway(calls[i].name, calls[i].contents))

RECURSIVE SumCalls(_, _, _)
\* the sum of a (category, type) count over the calls given the accumulator
SumCalls(i, c, t) ==
    IF i = 0 THEN 0
    ELSE (IF "global_statistics" \in calls[i].keywords
          THEN Get(StatisticsOfCall(i)[c], t) ELSE 0)
         + SumCalls(i - 1, c, t)

\* C17: the side table has one entry for every pathway name of a call given
\* both the accumulator and the side table, and no other; the entry is the
\* statistics of the latest such call for that name; the accumulator's totals
\* are the sums over every call given the accumulator; a call given no
\* accumulator leaves the side table as it was.
C17_SideTableHoldsLatestPerName ==
    /\ DOMAIN all_pathways_statistics = {calls[i].name : i \in RecordingCalls}
    /\ \A n \in DOMAIN all_pathways_statistics :
          all_pathways_statistics[n] = StatisticsOfCall(LatestRecording(n))
    /\ KeysKnown(global_statistics)
    /\ \A c \in StatCategories, t \in StatTypes :
          Total(global_statistics, c, t) = SumCalls(Len(calls), c, t)

\* C17's case: P1 recorded twice with different contents, the entry being the
\* second one's and the totals holding both, then P2 passed without an
\* accumulator and left out of the side table
C17_Witness ==
    /\ Len(calls) = 3
    /\ calls[1].name = "P1" /\ calls[2].name = "P1" /\ calls[3].name = "P2"
    /\ RecordingCalls = {1, 2}
    /\ calls[3].keywords = {"all_pathways_statistics"}
    /\ StatisticsOfCall(1) # StatisticsOfCall(2)
    /\ DOMAIN all_pathways_statistics = {"P1"}
    /\ all_pathways_statistics["P1"] = StatisticsOfCall(2)
    /\ Total(global_statistics, "RDF nodes", "Protein") = 3

(***************************************************************************)
(* Claims about the tabular export                                         *)
(***************************************************************************)
Exported == df # NoResult
TableTypes == {"Protein", "Gene"}
\* the type occurs under the category for the i-th pathway
HasType(i, c, t) == c \in DOMAIN df_input[i][2] /\ t \in DOMAIN df_input[i][2][c]
SeenSomewhere(c, t) == \E i \in DOMAIN df_input : HasType(i, c, t)
\* the cell the claims give the i-th pathway in the column of (t, c)
ClaimedCell(i, c, t) ==
    IF HasType(i, c, t) THEN ToString(df_input[i][2][c][t]) ELSE ""

\* C8: to_table emits the column "<type>" <category> exactly when the type
\* occurs under the category for some pathway, and the cell of pathway P in it is
\* the count as a string when P has the type under the category, else ''.
C8_ColumnIffTypeSeen ==
    Exported =>
        /\ df.kind = "ok"
        /\ DOMAIN df.value.columns =
              {ColumnName(t, c) : <<t, c>> \in
                  {p \in TableTypes \X TableCategories : SeenSomewhere(p[2], p[1])}}
        /\ \A c \in TableCategories, t \in TableTypes, i \in DOMAIN df_input :
              SeenSomewhere(c, t) => df.value.columns[ColumnName(t, c)][i] = ClaimedCell(i, c, t)

\* the columns statistics_to_df has built when it hands them to pandas
BuiltColumns == AppendRows(<<>>, df_input, 1)

\* C9: the export never fails: whether or not the pathways have the same
\* categories, no error is raised, every column the export builds holds one
\* cell per pathway (never fewer), and the i-th cell of every column of the
\* table is the i-th pathway's.
C9_OneCellPerPathway ==
    Exported =>
        /\ df.kind = "ok"
        /\ \A name \in DOMAIN BuiltColumns : Len(BuiltColumns[name]) = Len(df_input)
        /\ df.value.index = [i \in DOMAIN df_input |-> df_input[i][1]]
        /\ \A name \in DOMAIN df.value.columns :
              Len(df.value.columns[name]) = Len(df_input)
        /\ \A c \in TableCategories, t \in TableTypes :
              ColumnName(t, c) \in DOMAIN df.value.columns =>
                 \A i \in DOMAIN df_input :
                    df.value.columns[ColumnName(t, c)][i] = ClaimedCell(i, c, t)

====
